---- MODULE Spec2Model ----
(***************************************************************************)
(* Model of the PGN import and deduplication pipeline of chess_import.py   *)
(* (class ChessDBManager): the folder loop, the per-file loop, the batch   *)
(* writer, the import ledger and the game signature.                       *)
(*                                                                         *)
(* The SQLite connection is modelled by the committed tables (games,       *)
(* moves, ledger) and by the rows written in the connection's open         *)
(* transaction (txGames, txMoves, inTxn); a SELECT of the connection sees  *)
(* both, a commit moves the second into the first, a rollback or the end   *)
(* of the process drops the second.                                        *)
(***************************************************************************)
EXTENDS Integers, Sequences, FiniteSets, TLC

\* ------------------------------------------------------------------ bounds
MaxGames   == 3      \* games per file
MaxTotal   == 3      \* games in the whole folder
NSigs      == 2      \* distinct signatures of the games of the folder
MaxBatch   == 2      \* batch_size is drawn from 1..MaxBatch
MaxRuns    == 2      \* calls of process_pgn_folder
MaxFaults  == 1      \* injected sqlite3.Error failures
MaxCrashes == 1      \* interruptions of the process

\* ------------------------------------------------------- program constants
NumEncodings == 3    \* encodings = ['utf-8', 'latin-1', 'iso-8859-1']
encodings == << "utf-8", "latin-1", "iso-8859-1" >>

\* --------------------------------------------------------------- the input
\* A directory entry: a name and, for the model, how open() answers, bytes
\* of the file and which games the notation parser yields.
FileNames == { [stem |-> "a", ext |-> "pgn"],
               [stem |-> "b", ext |-> "PGN"],
               [stem |-> "c", ext |-> "txt"] }

\* str.lower() on the extension
Lower(e) == IF e = "PGN" THEN "pgn" ELSE e

\* f.lower().endswith('.pgn')
IsPgn(f) == Lower(f.ext) = "pgn"

PgnNames == { f \in FileNames : IsPgn(f) }

\* One game of a file as chess.pgn.read_game meets it:
\*   kind "ok"        parsed, every header value storable
\*   kind "malformed" read_game raises
\*   kind "overflow"  parsed; its WhiteElo header has more digits than a
\*                    SQLite INTEGER holds, so parse_elo returns an int that
\*                    cursor.execute rejects with OverflowError
\* plies is the length of the main line.
Malformed == [sig |-> 0, plies |-> 0, kind |-> "malformed"]

Poison == [sig |-> NSigs, plies |-> NSigs, kind |-> "overflow"]

GamePool == { [sig |-> s, plies |-> s, kind |-> "ok"] : s \in 1..NSigs }
               \cup { Malformed, Poison }

Range(s) == { s[i] : i \in 1..Len(s) }

SeqsUpTo(S, n) == UNION { [1..k -> S] : k \in 0..n }

\* how open(file_path, encoding=..., errors='replace') answers:
\*   "ok"       a stream
\*   "oserror"  raises OSError (unreadable file)
OpenKinds == {"ok", "oserror"}

\* Bytes of a file, as far as decoding goes: "41" is the letter A in every
\* encoding of the list, "E9" is e-acute in latin-1 and iso-8859-1 and, on
\* its own, not valid UTF-8.
Ascii == << "41" >>
ByteStrings == { Ascii, << "41", "E9" >> }

\* bytes.decode(encoding) with errors='strict' raises UnicodeDecodeError
DecodeRaises(b, encoding) ==
    encoding = "utf-8" /\ \E i \in 1..Len(b) : b[i] = "E9"

\* the text a stream opened with errors='replace' yields: an invalid byte
\* becomes U+FFFD, nothing is raised
decode_replace(b, encoding) ==
    [ i \in 1..Len(b) |->
        IF b[i] = "41" THEN "A"
        ELSE IF encoding = "utf-8" THEN "U+FFFD" ELSE "e-acute" ]

FoldersOf(pool, texts) ==
    { fd \in [PgnNames -> [open : OpenKinds, bytes : texts,
                           content : SeqsUpTo(pool, MaxGames)]] :
        /\ \A f \in PgnNames : fd[f].open # "ok"
                                 => fd[f].content = << >> /\ fd[f].bytes = Ascii
        /\ \A f, g \in PgnNames :
              f # g => Len(fd[f].content) + Len(fd[g].content) <= MaxTotal }

Folders == FoldersOf(GamePool, {Ascii})

\* The folders without a game that overflows.  The program compares
\* signatures for equality only, so of the folders that differ by a renaming
\* of the signatures one is kept: read file after file, a signature is at
\* most one more than the largest before it.
IsOk(g) == g.kind = "ok"

OkSigs(fd, order) ==
    SelectSeq(fd[order[1]].content, IsOk) \o SelectSeq(fd[order[2]].content, IsOk)

InOrderOfAppearance(s) ==
    \A i \in 1..Len(s) : \A v \in 1..(s[i].sig - 1) : \E j \in 1..(i - 1) : s[j].sig = v

CleanFoldersOf(texts) ==
    LET order == CHOOSE p \in [1..2 -> PgnNames] : p[1] # p[2]
    IN  { fd \in FoldersOf(GamePool \ {Poison}, texts) :
            InOrderOfAppearance(OkSigs(fd, order)) }

CleanFolders == CleanFoldersOf({Ascii})

\* ------------------------------------------------- the game signature
SigPlies == 10       \* while not node.is_end() and count < 10
MaxPlies == 12       \* bound: plies of a game handed to the signature
MaxEdits == 2        \* bound: differences between the two games compared

\* the seven headers of key_info, in its order, with the default of each
KeyHeaders == << "White", "Black", "Date", "Event", "Site", "Round", "Result" >>

HeaderDefault(h) ==
    IF h = "Date" THEN << "?", "?", "?", "?", ".", "?", "?", ".", "?", "?" >>
    ELSE IF h = "Result" THEN << "*" >>
    ELSE << "?" >>

\* a header the signature does not read
OtherHeaders == { "WhiteElo" }
HeaderNames == Range(KeyHeaders) \cup OtherHeaders

\* strings are sequences of characters; Absent marks a missing header
Absent == << "absent" >>
HeaderValues == { << "a" >>, << "?" >>, << "a", "|", "b" >> }

\* headers.get(h, default)
HeaderGet(headers, h, default) ==
    IF headers[h] = Absent THEN default ELSE headers[h]

\* key_info
key_info(headers) ==
    [ i \in 1..Len(KeyHeaders) |-> HeaderGet(headers, KeyHeaders[i], HeaderDefault(KeyHeaders[i])) ]

\* mutant: the loop has no limit on the number of plies
RECURSIVE SigMoves_all(_, _)
SigMoves_all(mainline, count) ==
    IF mainline # << >>
      THEN << Head(mainline) >> \o SigMoves_all(Tail(mainline), count + 1)
      ELSE << >>

\* the while loop over the main line: the uci of the first plies, at most
\* SigPlies of them
RECURSIVE SigMoves(_, _)
SigMoves(mainline, count) ==
    IF mainline # << >> /\ count < SigPlies
      THEN << Head(mainline) >> \o SigMoves(Tail(mainline), count + 1)
      ELSE << >>

\* "|".join(parts)
RECURSIVE Join(_)
Join(parts) ==
    IF parts = << >> THEN << >>
    ELSE IF Len(parts) = 1 THEN parts[1]
    ELSE parts[1] \o << "|" >> \o Join(Tail(parts))

\* hashlib.sha256(data).hexdigest(), taken as free of collisions
Sha256Hex(data) == << "sha256", data >>

compute_game_signature(game) ==
    Sha256Hex(Join(key_info(game.headers) \o SigMoves(game.mainline, 0)))

\* the games handed to the signature: one move differs from the others
UciMoves == { << "e", "2", "e", "4" >>, << "d", "2", "d", "4" >> }
Mainlines == { [ i \in 1..n |-> << "e", "2", "e", "4" >> ] : n \in {0, 1, SigPlies - 1, SigPlies, SigPlies + 1} }
BaseHeaders == { [ h \in HeaderNames |-> v ] : v \in {Absent, << "a" >>} }
SigGames == [ headers : BaseHeaders, mainline : Mainlines ]
NoSig == << "none" >>

VARIABLES
    folder,          \* the directory on disk (unchanged by the program)
    games,           \* committed rows of table games
    moves,           \* committed rows of table moves
    ledger,          \* committed rows of table import_metadata
    txGames,         \* rows of games written in the open transaction
    txMoves,         \* rows of moves written in the open transaction
    txLedger,        \* rows of import_metadata written in the open transaction
    inTxn,           \* conn.in_transaction
    pc,              \* position of the process
    batch_size, skip_existing,
    pgn_files,       \* files the folder loop has still to take up
    fname,           \* file being processed
    total_games,
    games_added, games_skipped, file_errors,    \* counters of the manager
    enc,             \* index into encodings
    pos,             \* position of the parser in the file
    games_in_file, games_batch, moves_batch, current_batch_game_index,
    runs, faults, crashes,                      \* history: bounds
    start,           \* history: the store and counters when the run began
    dirty,           \* history: an operation on the store has raised
    batchLog,        \* history: rows committed by a batch write
    ledger_writes,   \* history: calls of record_processed_file that returned,
                     \* in this call of process_pgn_folder
    gameA, gameB,    \* signature check: two parsed games
    sigA, sigB,      \* signature check: their signatures
    edits            \* signature check: differences made between them

storeVars == << games, moves, ledger, txGames, txMoves, txLedger, inTxn >>
mgrVars   == << games_added, games_skipped, file_errors >>
runVars   == << batch_size, skip_existing, pgn_files, total_games >>
fileVars  == << fname, enc, pos, games_in_file, games_batch, moves_batch,
                current_batch_game_index >>
histVars  == << runs, faults, crashes, start, dirty, batchLog, ledger_writes >>
sigVars   == << gameA, gameB, sigA, sigB, edits >>
importVars == << folder, storeVars, mgrVars, runVars, fileVars, pc, histVars >>
vars == << importVars, sigVars >>

\* ---------------------------------------------------------------- helpers
SetMax(S) == IF S = {} THEN 0 ELSE CHOOSE x \in S : \A y \in S : y <= x

\* what a SELECT of this connection sees
VisibleGames == games \cup txGames

\* cursor.lastrowid of the next INSERT INTO games (INTEGER PRIMARY KEY
\* without AUTOINCREMENT: largest rowid + 1)
LastRowId(rows) == SetMax({ r.id : r \in rows }) + 1

Perms(S) == { p \in [1..Cardinality(S) -> S] : \A i, j \in 1..Cardinality(S) : i # j => p[i] # p[j] }

\* mutant: the ledger is never consulted
is_file_processed_never(filename) == FALSE

\* mutant: INSERT without OR REPLACE on a table without the UNIQUE column
insert_or_replace_appends(rows, row) == rows \cup {row}

\* INSERT OR REPLACE INTO import_metadata: filename is UNIQUE, the row of
\* the same filename is deleted first
insert_or_replace(rows, row) ==
    { r \in rows : r.filename # row.filename } \cup {row}

\* table import_metadata as this connection sees it
VisibleLedger ==
    { r \in ledger : \A t \in txLedger : t.filename # r.filename } \cup txLedger

\* SELECT id FROM import_metadata WHERE filename = ?
is_file_processed(filename) == \E r \in VisibleLedger : r.filename = filename

\* mutant: the duplicate check finds nothing
is_game_duplicate_never(signature) == FALSE

\* SELECT id FROM games WHERE signature = ?
is_game_duplicate(signature) == \E r \in VisibleGames : r.signature = signature

\* mutant: the ply counter starts at 1
extract_moves_ply_from_one(game, src, game_id) ==
    [ p \in 1..game.plies |-> [game_id |-> game_id, ply_number |-> p, src |-> src] ]

\* extract_moves: one tuple per node of the main line, ply from 0
extract_moves(game, src, game_id) ==
    [ p \in 1..game.plies |-> [game_id |-> game_id, ply_number |-> p - 1, src |-> src] ]

\* the loop of insert_games_batch over games_batch[1..n]: the rows it
\* inserts and the map from temporary to real identifier
InsertedGames(batch, n, visible) ==
    { [id |-> LastRowId(visible) + (i - 1),
       signature |-> batch[i].signature,
       src |-> batch[i].src] : i \in 1..n }

\* mutant: every temporary identifier is mapped to the row of the first game
temp_to_real_id_first(batch, visible) ==
    [ t \in { -i : i \in 1..Len(batch) } |-> LastRowId(visible) ]

temp_to_real_id(batch, visible) ==
    [ t \in { -i : i \in 1..Len(batch) } |-> LastRowId(visible) + ((-t) - 1) ]

\* moves with the identifiers replaced; a move with an unknown temporary
\* identifier is dropped with a warning, a non-negative one is kept
updated_moves(mvs, map) ==
    { IF m.game_id < 0
        THEN [m EXCEPT !.game_id = map[m.game_id]]
        ELSE m : m \in { x \in Range(mvs) : x.game_id < 0 => x.game_id \in DOMAIN map } }

\* first game of the batch whose insert raises OverflowError, 0 if none
FirstOverflow(batch) ==
    IF \E i \in 1..Len(batch) : batch[i].kind = "overflow"
      THEN CHOOSE i \in 1..Len(batch) :
             /\ batch[i].kind = "overflow"
             /\ \A j \in 1..(i - 1) : batch[j].kind # "overflow"
      ELSE 0

\* ------------------------------------------------------------------- Init
\* the snapshot of a run that has not begun
NoRun == [games |-> {}, moves |-> {}, ledger |-> {}, file_errors |-> 0,
          games_skipped |-> 0, crashes |-> 0]

ImportIdle ==
    /\ games = {} /\ moves = {} /\ ledger = {}
    /\ txGames = {} /\ txMoves = {} /\ txLedger = {} /\ inTxn = FALSE
    /\ pc = "idle"
    /\ batch_size = 1 /\ skip_existing = TRUE
    /\ pgn_files = << >> /\ total_games = 0
    /\ games_added = 0 /\ games_skipped = 0 /\ file_errors = 0
    /\ fname = CHOOSE f \in PgnNames : TRUE
    /\ enc = 1 /\ pos = 1
    /\ games_in_file = 0 /\ games_batch = << >> /\ moves_batch = << >>
    /\ current_batch_game_index = 0
    /\ runs = 0 /\ faults = 0 /\ crashes = 0
    /\ start = NoRun
    /\ batchLog = {}
    /\ ledger_writes = 0
    /\ dirty = FALSE

SigIdle ==
    /\ gameA = CHOOSE g \in SigGames : TRUE
    /\ gameB = gameA
    /\ sigA = NoSig /\ sigB = NoSig
    /\ edits = 0

Init ==
    /\ folder \in Folders
    /\ ImportIdle
    /\ SigIdle

\* ---------------------------------------------------------------- actions
\* process_pgn_folder, up to the loop: os.listdir in some order, filtered
StartRun ==
    /\ UNCHANGED sigVars
    /\ pc \in {"idle", "done", "raised"}
    /\ runs < MaxRuns
    /\ \E bs \in 1..MaxBatch, skip \in BOOLEAN, order \in Perms(PgnNames) :
         /\ batch_size' = bs
         /\ skip_existing' = skip
         /\ pgn_files' = order
    /\ total_games' = 0
    /\ pc' = IF PgnNames = {} THEN "done" ELSE "loop"
    /\ runs' = runs + 1
    /\ start' = [games |-> games, moves |-> moves,
                 ledger |-> { r.filename : r \in ledger },
                 file_errors |-> file_errors, games_skipped |-> games_skipped,
                 crashes |-> crashes]
    /\ ledger_writes' = 0
    /\ UNCHANGED << folder, storeVars, mgrVars, fileVars, faults, crashes, dirty, batchLog >>

\* the loop takes up a file that is_file_processed finds in the ledger
SkipFile ==
    /\ UNCHANGED sigVars
    /\ pc = "loop" /\ pgn_files # << >>
    /\ skip_existing /\ is_file_processed(Head(pgn_files))
    /\ games_skipped' = games_skipped + 1
    /\ pgn_files' = Tail(pgn_files)
    /\ UNCHANGED << folder, storeVars, games_added, file_errors, batch_size,
                    skip_existing, total_games, fileVars, pc, histVars >>

\* is_file_processed raises sqlite3.Error: outside the try of the loop
CheckFileRaises ==
    /\ UNCHANGED sigVars
    /\ pc = "loop" /\ pgn_files # << >>
    /\ skip_existing
    /\ faults < MaxFaults
    /\ faults' = faults + 1
    /\ dirty' = TRUE
    /\ pc' = "raised"
    /\ UNCHANGED << folder, storeVars, mgrVars, runVars, fileVars,
                    runs, crashes, start, batchLog, ledger_writes >>

\* mutant: a forced reimport first deletes the rows of the file
BeginFile_purges ==
    /\ UNCHANGED sigVars
    /\ pc = "loop" /\ pgn_files # << >>
    /\ ~(skip_existing /\ is_file_processed(Head(pgn_files)))
    /\ fname' = Head(pgn_files)
    /\ pgn_files' = Tail(pgn_files)
    /\ games_in_file' = 0 /\ games_batch' = << >> /\ moves_batch' = << >>
    /\ enc' = 1 /\ pos' = 1 /\ current_batch_game_index' = 0
    /\ pc' = "open"
    /\ games' = { g \in games : g.src.file # Head(pgn_files) }
    /\ moves' = { m \in moves : m.src.file # Head(pgn_files) }
    /\ UNCHANGED << folder, ledger, txGames, txMoves, txLedger, inTxn, mgrVars,
                    batch_size, skip_existing, total_games, histVars >>

\* the loop enters process_pgn_file: its locals
BeginFile ==
    /\ UNCHANGED sigVars
    /\ pc = "loop" /\ pgn_files # << >>
    /\ ~(skip_existing /\ is_file_processed(Head(pgn_files)))
    /\ fname' = Head(pgn_files)
    /\ pgn_files' = Tail(pgn_files)
    /\ games_in_file' = 0 /\ games_batch' = << >> /\ moves_batch' = << >>
    /\ enc' = 1 /\ pos' = 1 /\ current_batch_game_index' = 0
    /\ pc' = "open"
    /\ UNCHANGED << folder, storeVars, mgrVars, batch_size, skip_existing,
                    total_games, histVars >>

\* the locals of process_pgn_file go out of scope
DropLocals ==
    /\ enc' = 1 /\ pos' = 1
    /\ games_in_file' = 0 /\ games_batch' = << >> /\ moves_batch' = << >>
    /\ current_batch_game_index' = 0

\* mutant: the except branch does not count the file
FileFailed_uncounted ==
    /\ file_errors' = file_errors
    /\ pc' = "loop"
    /\ DropLocals

\* an exception leaves process_pgn_file: the except branch of the folder loop
FileFailed ==
    /\ file_errors' = file_errors + 1
    /\ pc' = "loop"
    /\ DropLocals

\* open(file_path, encoding=encodings[enc], errors='replace') answers with
\* a stream; reading it never raises UnicodeDecodeError, so the for loop
\* over the encodings is left (break) after its first pass
OpenOk ==
    /\ UNCHANGED sigVars
    /\ pc = "open"
    /\ folder[fname].open = "ok"
    /\ current_batch_game_index' = 0
    /\ pos' = 1
    /\ pc' = "read"
    /\ UNCHANGED << folder, storeVars, mgrVars, runVars, fname, enc,
                    games_in_file, games_batch, moves_batch, histVars >>

\* any other exception of open: logged and raised again
OpenOsError ==
    /\ UNCHANGED sigVars
    /\ pc = "open"
    /\ folder[fname].open = "oserror"
    /\ FileFailed
    /\ UNCHANGED << folder, storeVars, games_added, games_skipped, runVars,
                    fname, histVars >>

\* ------------------------------------------------ the per-file while loop
Content == folder[fname].content
AtGame  == pc = "read" /\ pos <= Len(Content)
Game    == Content[pos]

\* mutant: the exception of read_game leaves the while loop
ReadMalformed_aborts ==
    /\ UNCHANGED sigVars
    /\ AtGame /\ Game.kind = "malformed"
    /\ FileFailed
    /\ UNCHANGED << folder, storeVars, games_added, games_skipped, runVars, fname,
                    histVars >>

\* read_game raises: the inner except logs it and continues
ReadMalformed ==
    /\ UNCHANGED sigVars
    /\ AtGame /\ Game.kind = "malformed"
    /\ pos' = pos + 1
    /\ UNCHANGED << folder, storeVars, mgrVars, runVars, fname, enc, games_in_file,
                    games_batch, moves_batch, current_batch_game_index, pc, histVars >>

\* is_game_duplicate finds the signature: the game is skipped
ReadDuplicate ==
    /\ UNCHANGED sigVars
    /\ AtGame /\ Game.kind # "malformed"
    /\ is_game_duplicate(Game.sig)
    /\ pos' = pos + 1
    /\ UNCHANGED << folder, storeVars, mgrVars, runVars, fname, enc, games_in_file,
                    games_batch, moves_batch, current_batch_game_index, pc, histVars >>

\* is_game_duplicate raises sqlite3.Error: caught by the inner except
DupCheckRaises ==
    /\ UNCHANGED sigVars
    /\ AtGame /\ Game.kind # "malformed"
    /\ faults < MaxFaults
    /\ faults' = faults + 1
    /\ dirty' = TRUE
    /\ pos' = pos + 1
    /\ UNCHANGED << folder, storeVars, mgrVars, runVars, fname, enc, games_in_file,
                    games_batch, moves_batch, current_batch_game_index, pc,
                    runs, crashes, start, batchLog, ledger_writes >>

\* a new game: appended with its moves under the temporary identifier
ReadNew ==
    /\ UNCHANGED sigVars
    /\ AtGame /\ Game.kind # "malformed"
    /\ ~is_game_duplicate(Game.sig)
    /\ LET src == [file |-> fname, pos |-> pos]
           temp_game_id == -(current_batch_game_index + 1)
       IN  /\ games_batch' = Append(games_batch,
                                [signature |-> Game.sig, src |-> src, kind |-> Game.kind])
           /\ moves_batch' = moves_batch \o extract_moves(Game, src, temp_game_id)
    /\ games_in_file' = games_in_file + 1
    /\ current_batch_game_index' = current_batch_game_index + 1
    /\ pos' = pos + 1
    /\ pc' = IF Len(games_batch') >= batch_size THEN "flush_mid" ELSE "read"
    /\ UNCHANGED << folder, storeVars, mgrVars, runVars, fname, enc, histVars >>

\* mutant: the games left in the batch at the end of the file are not written
ReadEof_drops_rest ==
    /\ UNCHANGED sigVars
    /\ pc = "read" /\ pos > Len(Content)
    /\ pc' = "record"
    /\ UNCHANGED << folder, storeVars, mgrVars, runVars, fileVars, histVars >>

\* read_game returns None: the loop ends; a non-empty batch is flushed
ReadEof ==
    /\ UNCHANGED sigVars
    /\ pc = "read" /\ pos > Len(Content)
    /\ pc' = IF games_batch # << >> THEN "flush_final" ELSE "record"
    /\ UNCHANGED << folder, storeVars, mgrVars, runVars, fileVars, histVars >>

\* ------------------------------------------------------ insert_games_batch
InFlush  == pc \in {"flush_mid", "flush_final"}
InCommit == pc \in {"commit_mid", "commit_final"}
IsFinal  == pc \in {"flush_final", "commit_final"}

Rollback == txGames' = {} /\ txMoves' = {} /\ txLedger' = {} /\ inTxn' = FALSE

\* mutant: the inner except starts the temporary identifiers again
BatchRaise_resets_index ==
    IF IsFinal
      THEN FileFailed
      ELSE /\ pc' = "read"
           /\ current_batch_game_index' = 0
           /\ UNCHANGED << file_errors, enc, pos, games_in_file, games_batch,
                           moves_batch >>

\* insert_games_batch raises: the flush inside the while loop is caught by
\* the inner except (the batch is kept), the final flush fails the file
BatchRaise ==
    IF IsFinal
      THEN FileFailed
      ELSE /\ pc' = "read"
           /\ UNCHANGED << file_errors, enc, pos, games_in_file, games_batch,
                           moves_batch, current_batch_game_index >>

\* BEGIN TRANSACTION inside an open transaction: sqlite3.OperationalError
BatchBeginRaises ==
    /\ UNCHANGED sigVars
    /\ InFlush /\ inTxn
    /\ Rollback
    /\ dirty' = TRUE
    /\ BatchRaise
    /\ UNCHANGED << folder, games, moves, ledger, games_added, games_skipped,
                    runVars, fname, runs, faults, crashes, start, batchLog, ledger_writes >>

\* every game and the moves are inserted
BatchInsert ==
    /\ UNCHANGED sigVars
    /\ InFlush /\ ~inTxn
    /\ FirstOverflow(games_batch) = 0
    /\ txGames' = InsertedGames(games_batch, Len(games_batch), VisibleGames)
    /\ txMoves' = updated_moves(moves_batch, temp_to_real_id(games_batch, VisibleGames))
    /\ inTxn' = TRUE
    /\ pc' = IF pc = "flush_mid" THEN "commit_mid" ELSE "commit_final"
    /\ UNCHANGED << folder, games, moves, ledger, txLedger, mgrVars, runVars, fileVars,
                    histVars >>

\* an insert of a game raises OverflowError: not a sqlite3.Error, so the
\* except branch with the rollback is not taken
BatchOverflow ==
    /\ UNCHANGED sigVars
    /\ InFlush /\ ~inTxn
    /\ FirstOverflow(games_batch) > 0
    /\ txGames' = InsertedGames(games_batch, FirstOverflow(games_batch) - 1, VisibleGames)
    /\ txMoves' = {}
    /\ inTxn' = TRUE
    /\ dirty' = TRUE
    /\ BatchRaise
    /\ UNCHANGED << folder, games, moves, ledger, txLedger, games_added, games_skipped,
                    runVars, fname, runs, faults, crashes, start, batchLog, ledger_writes >>

\* an insert or the commit raises sqlite3.Error: rollback and raise
BatchSqliteError ==
    /\ UNCHANGED sigVars
    /\ (InFlush /\ ~inTxn) \/ InCommit
    /\ faults < MaxFaults
    /\ faults' = faults + 1
    /\ dirty' = TRUE
    /\ Rollback
    /\ BatchRaise
    /\ UNCHANGED << folder, games, moves, ledger, games_added, games_skipped,
                    runVars, fname, runs, crashes, start, batchLog, ledger_writes >>

\* conn.commit() of the batch
BatchCommit ==
    /\ UNCHANGED sigVars
    /\ InCommit
    /\ games' = games \cup txGames
    /\ moves' = moves \cup txMoves
    /\ ledger' = VisibleLedger
    /\ Rollback
    /\ games_added' = games_added + Len(games_batch)
    /\ batchLog' = batchLog \cup txGames
    /\ IF pc = "commit_mid"
         THEN /\ games_batch' = << >> /\ moves_batch' = << >>
              /\ current_batch_game_index' = 0
              /\ pc' = "read"
         ELSE /\ pc' = "record"
              /\ UNCHANGED << games_batch, moves_batch, current_batch_game_index >>
    /\ UNCHANGED << folder, games_skipped, file_errors, runVars, fname,
                    enc, pos, games_in_file, runs, faults, crashes, start, dirty,
                    ledger_writes >>

\* ------------------------------------------ back in the folder loop
\* process_pgn_file returned: total_games += games_in_file, then
\* record_processed_file (INSERT OR REPLACE, commit)
RecordFile ==
    /\ UNCHANGED sigVars
    /\ pc = "record"
    /\ total_games' = total_games + games_in_file
    /\ ledger' = insert_or_replace(VisibleLedger,
                                    [filename |-> fname, games_count |-> games_in_file])
    /\ games' = games \cup txGames
    /\ moves' = moves \cup txMoves
    /\ Rollback
    /\ ledger_writes' = ledger_writes + 1
    /\ pc' = "loop"
    /\ DropLocals
    /\ UNCHANGED << folder, mgrVars, batch_size, skip_existing, pgn_files, fname,
                    runs, faults, crashes, start, dirty, batchLog >>

\* record_processed_file raises sqlite3.Error: the file counts as an error.
\* There is no rollback.  If conn.commit() raised, the row stays written in
\* the open transaction; if the INSERT raised, the transaction it had opened
\* stays open without the row, or SQLite has rolled it back itself.
RecordRaises ==
    /\ UNCHANGED sigVars
    /\ pc = "record"
    /\ faults < MaxFaults
    /\ faults' = faults + 1
    /\ dirty' = TRUE
    /\ total_games' = total_games + games_in_file
    /\ \/ /\ txLedger' = insert_or_replace(txLedger,
                                [filename |-> fname, games_count |-> games_in_file])
          /\ inTxn' = TRUE
          /\ UNCHANGED << txGames, txMoves >>
       \/ inTxn' = TRUE /\ UNCHANGED << txGames, txMoves, txLedger >>
       \/ Rollback
    /\ FileFailed
    /\ UNCHANGED << folder, games, moves, ledger, games_added, games_skipped,
                    batch_size, skip_existing, pgn_files, fname,
                    runs, crashes, start, batchLog, ledger_writes >>

\* the loop is over: return total_games
ReturnTotal ==
    /\ UNCHANGED sigVars
    /\ pc = "loop" /\ pgn_files = << >>
    /\ pc' = "done"
    /\ UNCHANGED << folder, storeVars, mgrVars, runVars, fileVars, histVars >>

\* ------------------------------------------------- the end of the process
NewManager ==
    /\ games_added' = 0 /\ games_skipped' = 0 /\ file_errors' = 0
    /\ batch_size' = 1 /\ skip_existing' = TRUE
    /\ pgn_files' = << >> /\ total_games' = 0
    /\ fname' = CHOOSE f \in PgnNames : TRUE
    /\ start' = NoRun
    /\ ledger_writes' = 0
    /\ DropLocals
    /\ Rollback
    /\ pc' = "idle"

\* the process is interrupted: the open transaction is lost
Crash ==
    /\ UNCHANGED sigVars
    /\ pc \notin {"idle", "done", "raised"}
    /\ crashes < MaxCrashes
    /\ crashes' = crashes + 1
    /\ NewManager
    /\ UNCHANGED << folder, games, moves, ledger, runs, faults, dirty, batchLog >>

\* close(): the connection is closed without a commit
Close ==
    /\ UNCHANGED sigVars
    /\ pc \in {"done", "raised"}
    /\ NewManager
    /\ UNCHANGED << folder, games, moves, ledger, runs, faults, crashes, dirty, batchLog >>

Next ==
    \/ StartRun \/ SkipFile \/ CheckFileRaises \/ BeginFile
    \/ OpenOk \/ OpenOsError
    \/ ReadMalformed \/ ReadDuplicate \/ DupCheckRaises \/ ReadNew \/ ReadEof
    \/ BatchBeginRaises \/ BatchInsert \/ BatchOverflow \/ BatchSqliteError
    \/ BatchCommit \/ RecordFile \/ RecordRaises \/ ReturnTotal
    \/ Crash \/ Close

Spec == Init /\ [][Next]_vars

\* The import when no statement of the store raises: the folder holds no
\* game that overflows and no sqlite3.Error occurs; files may still be
\* unreadable, games malformed, and the process interrupted.
CleanInit == folder \in CleanFolders /\ ImportIdle /\ SigIdle

CleanNext ==
    \/ StartRun \/ SkipFile \/ BeginFile
    \/ OpenOk \/ OpenOsError
    \/ ReadMalformed \/ ReadDuplicate \/ ReadNew \/ ReadEof
    \/ BatchInsert \/ BatchCommit \/ RecordFile \/ ReturnTotal
    \/ Crash \/ Close

CleanSpec == CleanInit /\ [][CleanNext]_vars

\* The import of folders whose files can all be read, when no game
\* overflows and the process is not interrupted, and a batch write may
\* raise sqlite3.Error (rolled back by insert_games_batch).
FlushInit ==
    /\ folder \in { fd \in CleanFolders : \A f \in PgnNames : fd[f].open = "ok" }
    /\ ImportIdle /\ SigIdle

FlushNext ==
    \/ StartRun \/ SkipFile \/ BeginFile \/ OpenOk
    \/ ReadMalformed \/ ReadDuplicate \/ ReadNew \/ ReadEof
    \/ BatchInsert \/ BatchSqliteError \/ BatchCommit
    \/ RecordFile \/ ReturnTotal \/ Close

FlushSpec == FlushInit /\ [][FlushNext]_vars

\* The import of folders whose files may hold bytes that are not valid
\* UTF-8, when no statement of the store raises and the process is not
\* interrupted.
DecodeInit == folder \in CleanFoldersOf(ByteStrings) /\ ImportIdle /\ SigIdle

DecodeNext ==
    \/ StartRun \/ SkipFile \/ BeginFile \/ OpenOk \/ OpenOsError
    \/ ReadMalformed \/ ReadDuplicate \/ ReadNew \/ ReadEof
    \/ BatchInsert \/ BatchCommit \/ RecordFile \/ ReturnTotal \/ Close

DecodeSpec == DecodeInit /\ [][DecodeNext]_vars

\* ------------------------------------- the signature as a pure function
\* the second game gets another value, or none, for one header
EditHeader ==
    /\ edits < MaxEdits
    /\ \E h \in HeaderNames, v \in HeaderValues \cup {Absent} :
         /\ gameB.headers[h] # v
         /\ gameB' = [gameB EXCEPT !.headers[h] = v]
    /\ edits' = edits + 1
    /\ sigA' = NoSig /\ sigB' = NoSig
    /\ UNCHANGED << gameA, importVars >>

\* the second game gets another move at one ply, or one more ply
EditMove ==
    /\ edits < MaxEdits
    /\ \E k \in 1..MaxPlies, m \in UciMoves :
         /\ k <= Len(gameB.mainline) + 1
         /\ IF k <= Len(gameB.mainline)
              THEN /\ gameB.mainline[k] # m
                   /\ gameB' = [gameB EXCEPT !.mainline[k] = m]
              ELSE gameB' = [gameB EXCEPT !.mainline = Append(@, m)]
    /\ edits' = edits + 1
    /\ sigA' = NoSig /\ sigB' = NoSig
    /\ UNCHANGED << gameA, importVars >>

\* the second game loses its last ply
DropMove ==
    /\ edits < MaxEdits
    /\ gameB.mainline # << >>
    /\ gameB' = [gameB EXCEPT !.mainline = SubSeq(@, 1, Len(@) - 1)]
    /\ edits' = edits + 1
    /\ sigA' = NoSig /\ sigB' = NoSig
    /\ UNCHANGED << gameA, importVars >>

\* compute_game_signature on both games
ComputeSignatures ==
    /\ sigA = NoSig
    /\ sigA' = compute_game_signature(gameA)
    /\ sigB' = compute_game_signature(gameB)
    /\ UNCHANGED << gameA, gameB, edits, importVars >>

SigInit ==
    /\ folder = CHOOSE fd \in Folders : TRUE
    /\ ImportIdle
    /\ gameA \in SigGames
    /\ gameB = gameA
    /\ sigA = NoSig /\ sigB = NoSig
    /\ edits = 0

SigNext == EditHeader \/ EditMove \/ DropMove \/ ComputeSignatures

SigSpec == SigInit /\ [][SigNext]_vars

\* ================================================================= claims
Sigs(rows)   == { r.signature : r \in rows }
LedgerNames  == { r.filename : r \in ledger }
InRun        == pc \notin {"idle", "raised"}
InFile       == pc \in {"open", "read", "flush_mid", "flush_final",
                        "commit_mid", "commit_final", "record"}
\* the game of the folder a row was made from
SourceGame(src) == folder[src.file].content[src.pos]
\* signatures of the games of the folder that parse
FolderSigs   == UNION { { g.sig : g \in { x \in Range(folder[f].content) : x.kind = "ok" } } :
                          f \in PgnNames }
MovesOf(g, mv) == { m \in mv : m.game_id = g.id }
\* files of the run the folder loop is through with
Handled(f)   == f \in PgnNames /\ f \notin Range(pgn_files) /\ ~(InFile /\ fname = f)

\* C1: no two rows of table games have the same signature, in any state of
\* the store reached by folder imports.
C1_SignatureUnique ==
    \A g1, g2 \in games : g1.signature = g2.signature => g1 = g2

\* C2: a run without forced reimport that starts with every eligible file
\* in the ledger changes no row of games or moves and returns 0; it opens
\* no file.
C2_RerunIsNoOp ==
    (InRun /\ skip_existing /\ PgnNames \subseteq start.ledger)
        => /\ games = start.games
           /\ moves = start.moves
           /\ pc = "done" => total_games = 0
           /\ ~InFile

C2_Witness ==
    /\ pc = "done" /\ skip_existing /\ PgnNames \subseteq start.ledger
    /\ runs = 2 /\ games_skipped = Cardinality(PgnNames)
    /\ Cardinality(games) >= 2 /\ moves # {}

\* C3: after imports in which no operation on the store raised and which
\* were not interrupted, a run with forced reimport inserts no row: every
\* game it reads is found by its signature.
C3_ForcedRerunAddsNothing ==
    (InRun /\ runs >= 2 /\ ~skip_existing /\ ~dirty /\ crashes = 0)
        => /\ games = start.games
           /\ moves = start.moves
           /\ games_batch = << >>

C3_Witness ==
    /\ pc = "done" /\ runs = 2 /\ ~skip_existing /\ ~dirty /\ crashes = 0
    /\ Cardinality(games) >= 2
    /\ PgnNames \subseteq start.ledger
    /\ games_skipped = 0

\* C4: a batch write that raises leaves nothing of the batch behind: the
\* transaction is rolled back, the committed rows are the ones from before.
BatchWriteRaised ==
    /\ InFlush \/ InCommit
    /\ pc' \in {"read", "loop"}
    /\ games_added' = games_added
    /\ crashes' = crashes
C4_BatchAllOrNothing ==
    [][ BatchWriteRaised =>
          /\ txGames' = {} /\ txMoves' = {} /\ ~inTxn'
          /\ games' = games /\ moves' = moves ]_vars

\* C5: with exactly one eligible file that cannot be opened and read, a
\* run in which no operation on the store raises counts one file error and
\* ends with every game that parses, of every other file, in the store.
BadFiles == { f \in PgnNames : folder[f].open # "ok" }
C5_OneBadFile ==
    (pc = "done" /\ ~dirty /\ Cardinality(BadFiles) = 1)
        => /\ file_errors = start.file_errors + 1
           /\ \A f \in PgnNames \ BadFiles :
                \A i \in 1..Len(folder[f].content) :
                   folder[f].content[i].kind = "ok"
                      => folder[f].content[i].sig \in Sigs(games)

C5_Witness ==
    /\ pc = "done" /\ ~dirty /\ Cardinality(BadFiles) = 1
    /\ runs = 1 /\ file_errors = 1
    /\ Cardinality(games) = 2
    /\ \E f \in BadFiles : pgn_files = << >> /\ fname # f

C5_WitnessBadLast ==
    /\ pc = "done" /\ ~dirty /\ Cardinality(BadFiles) = 1
    /\ runs = 1 /\ file_errors = 1
    /\ Cardinality(games) = 2
    /\ fname \in BadFiles

\* C6: when no operation on the store raises, a file with a game that does
\* not parse still completes: it gets its ledger row, every game of it that
\* parses is in the store, and no row comes from the game that does not.
C6_MalformedSkipsOneGame ==
    /\ \A r \in games : SourceGame(r.src).kind # "malformed"
    /\ \A f \in PgnNames :
         (InRun /\ ~dirty /\ Handled(f) /\ folder[f].open = "ok")
            => /\ f \in LedgerNames
               /\ \A i \in 1..Len(folder[f].content) :
                    folder[f].content[i].kind = "ok"
                       => folder[f].content[i].sig \in Sigs(games)

C6_Witness ==
    /\ InRun /\ ~dirty /\ runs = 1
    /\ Handled(fname) /\ fname \in LedgerNames
    /\ Len(folder[fname].content) = 3
    /\ folder[fname].content[1].kind = "ok"
    /\ folder[fname].content[2].kind = "malformed"
    /\ folder[fname].content[3].kind = "ok"
    /\ \E r1, r3 \in games :
          /\ r1.src = [file |-> fname, pos |-> 1]
          /\ r3.src = [file |-> fname, pos |-> 3]

\* C7: two games that agree on the seven headers, an absent header counting
\* as its placeholder, and on their first min(10, n) plies have the same
\* signature.
SamePrefix(m1, m2) ==
    \A i \in 1..10 :
       /\ (i <= Len(m1)) <=> (i <= Len(m2))
       /\ i <= Len(m1) => m1[i] = m2[i]
SameKey(g1, g2) ==
    /\ \A h \in {"White", "Black", "Event", "Site", "Round"} :
         (IF g1.headers[h] = Absent THEN << "?" >> ELSE g1.headers[h])
       = (IF g2.headers[h] = Absent THEN << "?" >> ELSE g2.headers[h])
    /\   (IF g1.headers["Date"] = Absent
             THEN << "?", "?", "?", "?", ".", "?", "?", ".", "?", "?" >>
             ELSE g1.headers["Date"])
       = (IF g2.headers["Date"] = Absent
             THEN << "?", "?", "?", "?", ".", "?", "?", ".", "?", "?" >>
             ELSE g2.headers["Date"])
    /\   (IF g1.headers["Result"] = Absent THEN << "*" >> ELSE g1.headers["Result"])
       = (IF g2.headers["Result"] = Absent THEN << "*" >> ELSE g2.headers["Result"])
    /\ SamePrefix(g1.mainline, g2.mainline)
C7_SignatureOfKeyOnly ==
    (sigA # NoSig /\ SameKey(gameA, gameB)) => sigA = sigB

C7_Witness ==
    /\ sigA # NoSig /\ SameKey(gameA, gameB)
    /\ Len(gameA.mainline) = 11 /\ Len(gameB.mainline) = 12
    /\ gameA.mainline[11] # gameB.mainline[11]

C7_WitnessNoMoves ==
    /\ sigA # NoSig /\ SameKey(gameA, gameB)
    /\ gameA.mainline = << >> /\ gameB.mainline = << >>
    /\ gameA.headers["White"] = Absent /\ gameB.headers["White"] = << "?" >>
    /\ gameA.headers["WhiteElo"] # gameB.headers["WhiteElo"]

\* C8: when process_pgn_folder returns, its result is the number of rows it
\* added to table games, and the ledger has one row for each completed file.
C8_TotalIsRowsAdded ==
    pc = "done" => total_games = Cardinality(games \ start.games)

\* C9: after interruptions only (no operation on the store raised), a run
\* that completes leaves in the store the signatures of all games of the
\* folder that parse, which is what one uninterrupted run leaves; no game of
\* the folder is in the store twice; a run without forced reimport does not
\* open a file that was in the ledger when it started.
C9_ResumeAfterInterrupt ==
    /\ (pc = "done" /\ ~dirty) => Sigs(games) = FolderSigs
    /\ ~dirty => \A r1, r2 \in games : r1.src = r2.src => r1 = r2
    /\ (skip_existing /\ InFile) => fname \notin start.ledger

C9_Witness ==
    /\ pc = "done" /\ ~dirty /\ crashes = 1 /\ start.crashes = 1 /\ skip_existing
    /\ games_skipped = 1
    /\ \E r \in start.games : r.src.file \notin start.ledger
    /\ games # start.games
    /\ Sigs(games) = FolderSigs

\* C10: the committed store holds the games of committed batches only, and
\* each of them with all the moves of its game, so that an interruption at
\* any point leaves exactly the committed batches.
C10_OnlyCommittedBatches ==
    /\ games \subseteq batchLog
    /\ \A g \in games :
         { m.ply_number : m \in MovesOf(g, moves) } = 0..(SourceGame(g.src).plies - 1)
    /\ \A m \in moves : \E g \in games : m.game_id = g.id

\* C11: the folder import never aborts early: whenever the run has ended,
\* by returning or by an exception, the folder loop has taken up every
\* eligible file and is through with it.
C11_NeverAbortsEarly ==
    pc \in {"done", "raised"} => \A f \in PgnNames : Handled(f)

\* C12: a file that ends failed gets no row in the ledger: every row written
\* to the ledger is the row of the file that completes in that step, and
\* that step counts no file error.
C12_FailedFileNotRecorded ==
    [][ \A r \in ledger' \ ledger :
          InFile /\ r.filename = fname /\ file_errors' = file_errors ]_vars

\* C13: a batch write that raises ends the file as failed, the flush inside
\* the while loop as well as the final one: the folder loop counts a file
\* error and goes on to the next file, no ledger row is written, and the
\* batches committed before stay in the store.
C13_BatchFailureFailsFile ==
    [][ BatchWriteRaised =>
          /\ pc' = "loop"
          /\ file_errors' = file_errors + 1
          /\ ledger' = ledger
          /\ games' = games /\ moves' = moves ]_vars

\* C14: the ledger holds at most one row per filename, in the committed
\* table and as the connection sees it; recording a file again replaces
\* its row.
C14_OneLedgerRowPerFile ==
    /\ \A r1, r2 \in ledger : r1.filename = r2.filename => r1 = r2
    /\ \A r1, r2 \in VisibleLedger : r1.filename = r2.filename => r1 = r2

\* a forced run has recorded again, with no new game, a file that an
\* earlier run had recorded with the games it imported
C14_Witness ==
    /\ runs = 2 /\ ~skip_existing /\ ~dirty /\ crashes = 0
    /\ \E r \in ledger :
         /\ r.games_count = 0
         /\ r.filename \in start.ledger
         /\ \E g \in start.games : g.src.file = r.filename

\* C15: a store error raised by a step of the per-file loop (the
\* already-processed check, the duplicate check, a batch write, the ledger
\* write) does not end the run: no run ends by an exception.
C15_StoreErrorsRecovered ==
    pc # "raised"

\* C16: every game skipped because read_game raised is counted: the step
\* that skips it adds one to a counter of the manager or of the run.
MalformedSkipped ==
    /\ AtGame /\ Game.kind = "malformed"
    /\ pos' = pos + 1
C16_MalformedCounted ==
    [][ MalformedSkipped =>
          \/ games_skipped' = games_skipped + 1
          \/ games_added' = games_added + 1
          \/ file_errors' = file_errors + 1
          \/ total_games' = total_games + 1 ]_vars

\* C17: when the folder loop takes up a file whose name has a row in the
\* ledger, a run without forced reimport skips it: the file is not opened,
\* the store stays as it is and games_skipped grows by one; a run with
\* forced reimport skips no file.
TakesUpFile ==
    /\ pc = "loop" /\ pgn_files # << >>
    /\ pgn_files' = Tail(pgn_files)
    /\ crashes' = crashes
C17_LedgerSkip ==
    [][ TakesUpFile =>
          /\ (skip_existing /\ Head(pgn_files) \in LedgerNames) =>
                /\ pc' = "loop"
                /\ games_skipped' = games_skipped + 1
                /\ storeVars' = storeVars
          /\ ~skip_existing =>
                /\ pc' = "open" /\ fname' = Head(pgn_files)
                /\ games_skipped' = games_skipped ]_vars

\* a run without forced reimport has skipped a file that has games in the
\* store and still has a file to take up
C17_Witness ==
    /\ pc = "loop" /\ skip_existing /\ pgn_files # << >>
    /\ games_skipped = 1 /\ file_errors = 0
    /\ \E f \in LedgerNames : Handled(f) /\ \E g \in games : g.src.file = f

\* a run with forced reimport has opened a file that has a ledger row
C17_WitnessForced ==
    /\ pc = "open" /\ ~skip_existing /\ fname \in LedgerNames /\ games_skipped = 0

\* C18: a committed batch write stores every move of the batch under the
\* identifier of the row of the game it was extracted from: each new game
\* row has exactly the moves of its game, each new move belongs to a new
\* game row made from the same game, and no game of the batch is left out;
\* whatever skips, flushes and failed flushes came before in the file.
CommitsBatch ==
    /\ InCommit
    /\ games_added' = games_added + Len(games_batch)
MovesExtracted(g) ==
    { [game_id |-> g.id, ply_number |-> p - 1, src |-> g.src] :
        p \in 1..SourceGame(g.src).plies }
C18_MovesUnderTheirGame ==
    [][ CommitsBatch =>
          /\ \A g \in games' \ games : MovesOf(g, moves') = MovesExtracted(g)
          /\ \A m \in moves' \ moves :
                \E g \in games' \ games : m.game_id = g.id /\ m.src = g.src
          /\ { g.src : g \in games' \ games } = { games_batch[i].src : i \in 1..Len(games_batch) }
          /\ Cardinality(games' \ games) = Len(games_batch) ]_vars

\* a batch of two games was committed at once under batch_size 1, after a
\* flush of it had raised, and a game of the file had been skipped before
C18_Witness ==
    /\ pc = "read" /\ dirty /\ runs = 1 /\ batch_size = 1
    /\ games_added = 2 /\ games_in_file = 2 /\ games_batch = << >>
    /\ Malformed \in Range(Content) /\ pos > Len(Content)
    /\ \E g1, g2 \in games :
         /\ g1.src.file = fname /\ g2.src.file = fname /\ g2.id = g1.id + 1
         /\ MovesOf(g1, moves) # {} /\ MovesOf(g2, moves) # {}

\* C19: no batch holds more than batch_size games, as it is accumulated
\* and as it is written in a transaction, also after a flush that raised.
C19_BatchBounded ==
    /\ Len(games_batch) <= batch_size
    /\ Cardinality(txGames) <= batch_size

\* C20: when a file completes (its ledger row is written), no game of it is
\* pending: every game of the file that parsed has its signature in table
\* games, the games of the last partial batch included, and nothing is
\* left in the open transaction.
CompletesFile ==
    /\ pc = "record" /\ pc' = "loop"
    /\ file_errors' = file_errors
C21_PliesNumbered ==
    /\ \A m1, m2 \in moves :
         (m1.game_id = m2.game_id /\ m1.ply_number = m2.ply_number) => m1 = m2
    /\ \A g \in games :
         { m.ply_number : m \in MovesOf(g, moves) }
            = 0..(Cardinality(MovesOf(g, moves)) - 1)

\* two games with moves are stored under identifiers that a batch which
\* was rolled back had been given before
C21_Witness ==
    /\ dirty /\ faults = 1 /\ runs = 1
    /\ \E g1, g2 \in games :
         /\ g1.id = 1 /\ g2.id = 2
         /\ Cardinality(MovesOf(g1, moves)) >= 1
         /\ Cardinality(MovesOf(g2, moves)) = 2

\* C22: every row of table moves refers to a row of table games made from
\* the same game, and every row of table games has all the moves extracted
\* from its game: no move without its game, no game with only a part of
\* its moves.
C22_MovesWithTheirGame ==
    /\ \A m \in moves : \E g \in games : m.game_id = g.id /\ m.src = g.src
    /\ \A g \in games : MovesOf(g, moves) = MovesExtracted(g)

\* C23: the stream a file is parsed from is the one of the first encoding
\* of the list that decodes the bytes of the file: every encoding before it
\* failed to decode them, it decodes them without a substituted character,
\* and no encoding after it is tried.
Bytes == folder[fname].bytes
C23_EncodingsInOrder ==
    (InFile /\ pc # "open")
        => /\ ~DecodeRaises(Bytes, encodings[enc])
           /\ "U+FFFD" \notin Range(decode_replace(Bytes, encodings[enc]))
           /\ \A e \in 1..(enc - 1) : DecodeRaises(Bytes, encodings[e])

\* C24: an attempt to decode a file with an encoding that fails on its
\* bytes leaves nothing behind: while the file is under such an encoding no
\* game of it is in the pending batch, in the per-file count, or written to
\* table games or moves by this run.
C24_NoPartialDecode ==
    (InFile /\ DecodeRaises(Bytes, encodings[enc]))
        => /\ games_batch = << >> /\ moves_batch = << >>
           /\ games_in_file = 0
           /\ \A g \in VisibleGames : g.src.file = fname => g \in start.games
           /\ \A m \in moves \cup txMoves : m.src.file = fname => m \in start.moves

\* C25: the ledger row written when a file completes carries the number
\* of games of that file that this run committed to table games, whether
\* or not games of the file were skipped: duplicates and games that do not
\* parse are not counted.
C25_LedgerCountsCommitted ==
    [][ CompletesFile =>
          \E r \in ledger' :
             /\ r.filename = fname
             /\ r.games_count
                  = Cardinality({ g \in games' \ start.games : g.src.file = fname }) ]_vars

\* C26: the import only adds rows to the tables games and moves: no step
\* (a file skipped, a duplicate skipped, a batch write, a batch write that
\* raises, the ledger write, a forced reimport) changes or deletes a
\* committed row of either table.
C26_RowsOnlyAdded ==
    [][ games \subseteq games' /\ moves \subseteq moves' ]_vars

\* a forced run is through with a file whose games an earlier run had
\* stored, after a batch write had raised, and all the rows are still there
C26_Witness ==
    /\ runs = 2 /\ ~skip_existing /\ dirty /\ pc = "loop"
    /\ Handled(fname)
    /\ \E g \in start.games : g.src.file = fname /\ g \in games /\ MovesOf(g, moves) # {}
    /\ games # start.games

\* C27: when a call of process_pgn_folder returns, every eligible file of
\* the folder is accounted for once: the files it skipped, the files it
\* counted as errors and the ledger writes it made add up to the number of
\* eligible files (on a fresh manager the two counters start at 0).
C27_EveryFileAccounted ==
    pc = "done"
        => (games_skipped - start.games_skipped)
             + (file_errors - start.file_errors)
             + ledger_writes = Cardinality(PgnNames)

\* a call on a fresh manager has returned with one file counted as an
\* error and one file recorded
C27_Witness ==
    /\ pc = "done" /\ runs = 1
    /\ start.games_skipped = 0 /\ start.file_errors = 0
    /\ games_skipped = 0 /\ file_errors = 1 /\ ledger_writes = 1

\* a call on a fresh manager has returned with one file skipped and one
\* file recorded
C27_WitnessSkipped ==
    /\ pc = "done" /\ runs = 2
    /\ start.games_skipped = 0 /\ start.file_errors = 0
    /\ games_skipped = 1 /\ file_errors = 0 /\ ledger_writes = 1

\* C28: games_added is the number of rows of table games committed through
\* this manager: every step of a manager adds to games_added exactly the
\* number of rows it commits: a committed batch its size, a batch that is
\* rolled back, a duplicate, a skipped file and the ledger write nothing.
C28_GamesAddedIsCommitted ==
    [][ pc' # "idle"
          => games_added' = games_added + Cardinality(games' \ games) ]_vars

\* C29: a batch write leaves no transaction open: when insert_games_batch
\* is left, by returning or by raising, the connection is in no transaction,
\* so that what follows (a duplicate check, the ledger write, the next batch
\* write) neither runs inside the transaction of a batch that failed nor
\* commits it.
LeavesBatchWrite ==
    /\ InFlush \/ InCommit
    /\ pc' \in {"read", "record", "loop"}
    /\ crashes' = crashes
C29_NoTransactionLeftOpen ==
    [][ LeavesBatchWrite => ~inTxn' /\ txGames' = {} /\ txMoves' = {} ]_vars

\* C30: each time the while loop of a file takes up the next game,
\* current_batch_game_index is the number of games in the pending batch and
\* the moves of the k-th pending game carry the temporary identifier -k;
\* a flush that commits empties the batch and resets the index together, a
\* flush that raises inside the loop changes neither.
TempIdsInStep ==
    /\ current_batch_game_index = Len(games_batch)
    /\ \A i \in 1..Len(moves_batch) :
          \E k \in 1..Len(games_batch) :
             /\ moves_batch[i].game_id = -k
             /\ moves_batch[i].src = games_batch[k].src
    /\ \A k \in 1..Len(games_batch) :
          { m \in Range(moves_batch) : m.game_id = -k }
             = { [game_id |-> -k, ply_number |-> p - 1, src |-> games_batch[k].src] :
                   p \in 1..SourceGame(games_batch[k].src).plies }
FlushInLoopEnds ==
    /\ pc \in {"flush_mid", "commit_mid"} /\ pc' = "read"
C30_IndexFollowsBatch ==
    /\ [](pc = "read" => TempIdsInStep)
    /\ [][ FlushInLoopEnds =>
             \/ /\ games_added' = games_added + Len(games_batch)
                /\ games_batch' = << >> /\ moves_batch' = << >>
                /\ current_batch_game_index' = 0
             \/ /\ games_added' = games_added
                /\ games_batch' = games_batch /\ moves_batch' = moves_batch
                /\ current_batch_game_index' = current_batch_game_index ]_vars

\* the loop is at a game with a game pending under batch_size 1: an earlier
\* batch was committed, then a flush inside the loop raised
C30_Witness ==
    /\ AtGame /\ dirty /\ batch_size = 1
    /\ Len(games_batch) = 1 /\ current_batch_game_index = 1
    /\ Len(moves_batch) >= 1
    /\ games_added = 1

TypeOK ==
    /\ pc \in {"idle", "loop", "open", "read", "flush_mid", "flush_final",
               "commit_mid", "commit_final", "record", "done", "raised"}
    /\ inTxn \in BOOLEAN
    /\ enc \in 1..NumEncodings /\ Len(encodings) = NumEncodings
    /\ txGames # {} => inTxn
    /\ txLedger # {} => inTxn
    /\ txLedger \subseteq [filename : PgnNames, games_count : 0..MaxGames]

====
